---- MODULE Spec2Model ----
(***************************************************************************)
(* A model of the pipeline migration tool: migrate.py (diff decoding,      *)
(* action classification, path compilation, the combinator backend         *)
(* generate_dsl / migrate_with_dsl) and fn.py (the combinators).           *)
(*                                                                         *)
(* Documents.  The mutation target is {"spec": origin["spec"]              *)
(* ["pipelineSpec"]}.  A document is modelled by                           *)
(*   tasksKind : "absent" | "list" | "map"   the value under spec.tasks    *)
(*   tasks     : the task list, each task [name, params]                   *)
(*   next      : the identity the next freshly allocated object gets       *)
(* A task's "params" value is [kind, items, map] with kind "absent" (no    *)
(* such key), "null", "list" (items) or "map" (map).  A list element is    *)
(* [f, oid]: f is its mapping (a TLA+ record), oid its object identity.    *)
(* Python exceptions are modelled by the field err of the interpreter      *)
(* state: "ok" or the exception's name.                                    *)
(***************************************************************************)
EXTENDS Integers, Sequences, FiniteSets, TLC

\* ---------------------------------------------------------------- bounds
MaxPaths   == 2   \* Paths in a DiffReport
MaxActions == 3   \* actions in a DiffReport (over all its Paths)
MaxLen     == 2   \* entries of a params list (runs of one callable)
MaxRuns    == 2   \* calls of one callable
MaxLines   == 4   \* lines of a diff text (convert_difference)

\* ------------------------------------------------------ migrate.py constants
OP_ADDED == "added"
OP_REMOVED == "removed"
FIELD_TYPE_LIST == "list"
FIELD_TYPE_MAP == "map"
TK_LIST_FIELDS == {"params", "tasks", "workspaces"}

is_tk_list_fields(name) == name \in TK_LIST_FIELDS

\* ------------------------------------------------------------ sequences
RECURSIVE SeqsUpTo(_, _)
SeqsUpTo(S, n) ==
    IF n = 0 THEN {<<>>}
    ELSE LET shorter == SeqsUpTo(S, n - 1)
         IN  shorter \cup {Append(s, x) : s \in {t \in shorter : Len(t) = n - 1}, x \in S}

Range(s) == {s[i] : i \in DOMAIN s}

RECURSIVE Concat(_)
Concat(ss) == IF ss = <<>> THEN <<>> ELSE Head(ss) \o Concat(Tail(ss))

RECURSIVE SelectIdx(_, _, _)
\* the indices i >= from of seq, in order, that are in the set keep
SelectIdx(n, from, keep) ==
    IF from > n THEN <<>>
    ELSE (IF from \in keep THEN <<from>> ELSE <<>>) \o SelectIdx(n, from + 1, keep)

\* ------------------------------------------------------- document values
NoMap == [k \in {} |-> ""]
Entry(f, oid) == [f |-> f, oid |-> oid]
NoItem == Entry(NoMap, 0)

PAbsent == [kind |-> "absent", items |-> <<>>, map |-> NoMap]
PNull == [kind |-> "null", items |-> <<>>, map |-> NoMap]
PList(items) == [kind |-> "list", items |-> items, map |-> NoMap]
PMap(m) == [kind |-> "map", items |-> <<>>, map |-> m]

Task(name, params) == [name |-> name, params |-> params]
Doc(kind, tasks, next) == [tasksKind |-> kind, tasks |-> tasks, next |-> next]

\* ------------------------------------------------------------- fn.py
\* The closures fn.py builds, as data: fn names the combinator, the other
\* fields are what the closure captured.
Fn(fn, key, idx, item, dflt) ==
    [fn |-> fn, key |-> key, idx |-> idx, item |-> item, dflt |-> dflt]

with_path(part, default) == Fn("with_path", part, 0, NoItem, default)
if_matches_task(name) == Fn("if_matches", name, 0, NoItem, "None")
nth(idx) == Fn("nth", "", idx, NoItem, "None")
append(to_add) == Fn("append", "", 0, to_add, "None")
delete_if_name_value(name, value) ==
    Fn("delete_if", "", 0, Entry([name |-> name, value |-> value], 0), "None")
delete_key(key) == Fn("delete_key", key, 0, NoItem, "None")

\* The interpreter state: the document, the current sub-document (a cursor
\* into the document, since every mutation is in place) and the exception.
Cur(t, i, sel) == [t |-> t, i |-> i, sel |-> sel]
Root == Cur("root", 0, <<>>)
St(doc, cur, err) == [doc |-> doc, cur |-> cur, err |-> err]
Raise(st, e) == [st EXCEPT !.err = e]
ParamsAt(st) == st.doc.tasks[st.cur.i].params

\* match_task(name)(task): task["name"] == name
match_task(name, task) == task.name = name

\* variant: match_name_value that compares the name only
match_name_only(name, value, obj) ==
    IF "name" \notin DOMAIN obj.f THEN "KeyError"
    ELSE IF obj.f["name"] = name THEN "yes" ELSE "no"

\* match_name_value(name, value)(obj), "KeyError" when a key it reads is absent
match_name_value(name, value, obj) ==
    IF "name" \notin DOMAIN obj.f THEN "KeyError"
    ELSE IF obj.f["name"] # name THEN "no"
    ELSE IF "value" \notin DOMAIN obj.f THEN "KeyError"
    ELSE IF obj.f["value"] = value THEN "yes" ELSE "no"

\* _with_path for one part
RunWithPath(st, part, default) ==
    LET c == st.cur
        d == st.doc
    IN  CASE c.t = "root" ->
               IF part = "spec" THEN [st EXCEPT !.cur = Cur("spec", 0, <<>>)]
               ELSE Raise(st, "KeyError")
          [] c.t = "spec" ->
               IF part = "tasks" /\ d.tasksKind # "absent"
                   THEN [st EXCEPT !.cur = Cur("tasks", 0, <<>>)]
               ELSE IF part = "tasks" /\ default # "None"
                   THEN [st EXCEPT !.doc.tasksKind = "map", !.cur = Cur("tasks", 0, <<>>)]
               ELSE Raise(st, "KeyError")
          [] c.t = "task" ->
               IF part = "params" /\ ParamsAt(st).kind # "absent"
                   THEN [st EXCEPT !.cur = Cur("params", c.i, <<>>)]
               ELSE IF part = "params" /\ default # "None"
                   THEN [st EXCEPT !.doc.tasks[c.i].params = PMap(NoMap),
                                   !.cur = Cur("params", c.i, <<>>)]
               ELSE IF part = "name" THEN [st EXCEPT !.cur = Cur("leaf", 0, <<>>)]
               ELSE Raise(st, "KeyError")
          [] c.t = "tasks" /\ d.tasksKind = "map" -> Raise(st, "KeyError")
          [] c.t = "params" /\ ParamsAt(st).kind = "map" ->
               IF part \in DOMAIN ParamsAt(st).map
                   THEN [st EXCEPT !.cur = Cur("leaf", 0, <<>>)]
               ELSE Raise(st, "KeyError")
          [] OTHER -> Raise(st, "TypeError")

\* _if_matches with match_task(name): [o for o in obj if fn(o)]
RunIfMatches(st, name) ==
    LET c == st.cur
        d == st.doc
        over == IF c.t = "tasks" THEN SelectIdx(Len(d.tasks), 1, DOMAIN d.tasks)
                ELSE c.sel
        keep == {i \in Range(over) : match_task(name, d.tasks[i])}
    IN  CASE c.t = "tasks" /\ d.tasksKind = "list" ->
               [st EXCEPT !.cur = Cur("sel", 0, SelectIdx(Len(d.tasks), 1, keep))]
          [] c.t = "tasks" /\ d.tasksKind = "map" ->
               [st EXCEPT !.cur = Cur("sel", 0, <<>>)]
          [] c.t = "sel" ->
               [st EXCEPT !.cur = Cur("sel", 0, SelectIdx(Len(d.tasks), 1, keep))]
          [] OTHER -> Raise(st, "TypeError")

\* _nth
RunNth(st, idx) ==
    LET c == st.cur
    IN  CASE c.t = "sel" ->
               IF Len(c.sel) > idx THEN [st EXCEPT !.cur = Cur("task", c.sel[idx + 1], <<>>)]
               ELSE Raise(st, "IndexError")
          [] OTHER -> Raise(st, "TypeError")

\* variant: append without the deep copy: the source object itself
no_deepcopy(to_add, fresh) == to_add

\* copy.deepcopy(to_add): the same mapping in a freshly allocated object
deepcopy(to_add, fresh) == Entry(to_add.f, fresh)

\* _add
RunAppend(st, to_add) ==
    LET c == st.cur
    IN  IF c.t = "params" /\ ParamsAt(st).kind = "list"
        THEN [st EXCEPT !.doc.tasks[c.i].params.items =
                            Append(@, deepcopy(to_add, st.doc.next)),
                        !.doc.next = @ + 1]
        ELSE Raise(st, "AttributeError")

\* _delete_if with match_name_value(name, value)
RunDeleteIf(st, name, value) ==
    LET c == st.cur
        pv == ParamsAt(st)
        verdict(i) == match_name_value(name, value, pv.items[i])
        idxs == {i \in DOMAIN pv.items : verdict(i) = "yes"}
        left == SelectIdx(Len(pv.items), 1, DOMAIN pv.items \ idxs)
    IN  CASE c.t = "params" /\ pv.kind = "list" ->
               IF \E i \in DOMAIN pv.items :
                      /\ verdict(i) = "KeyError"
               THEN Raise(st, "KeyError")
               ELSE [st EXCEPT !.doc.tasks[c.i].params.items =
                                   [k \in 1..Len(left) |-> pv.items[left[k]]]]
          [] c.t = "params" /\ pv.kind = "map" /\ DOMAIN pv.map = {} -> st
          [] OTHER -> Raise(st, "TypeError")

\* variant: obj.pop(key) without the default: a KeyError on an absent key
RunDeleteKeyStrict(st, key) ==
    LET c == st.cur
        pv == st.doc.tasks[st.cur.i].params
    IN  CASE c.t = "params" /\ pv.kind = "map" ->
               IF key \in DOMAIN pv.map
               THEN [st EXCEPT !.doc.tasks[c.i].params.map =
                                   [k \in DOMAIN pv.map \ {key} |-> pv.map[k]]]
               ELSE [st EXCEPT !.err = "KeyError"]
          [] c.t = "params" /\ pv.kind = "list" -> [st EXCEPT !.err = "TypeError"]
          [] OTHER -> [st EXCEPT !.err = "AttributeError"]

\* _delete_key: obj.pop(key, None)
RunDeleteKey(st, key) ==
    LET c == st.cur
        pv == ParamsAt(st)
    IN  CASE c.t = "params" /\ pv.kind = "map" ->
               [st EXCEPT !.doc.tasks[c.i].params.map =
                              [k \in DOMAIN pv.map \ {key} |-> pv.map[k]]]
          [] c.t = "params" /\ pv.kind = "list" -> Raise(st, "TypeError")
          [] OTHER -> Raise(st, "AttributeError")

RunFn(st, f) ==
    CASE f.fn = "with_path" -> RunWithPath(st, f.key, f.dflt)
      [] f.fn = "if_matches" -> RunIfMatches(st, f.key)
      [] f.fn = "nth" -> RunNth(st, f.idx)
      [] f.fn = "append" -> RunAppend(st, f.item)
      [] f.fn = "delete_if" -> RunDeleteIf(st, f.item.f["name"], f.item.f["value"])
      [] f.fn = "delete_key" -> RunDeleteKey(st, f.key)

RECURSIVE RunFns(_, _)
\* _apply: for fn in fns: obj = fn(obj); an exception ends the loop
RunFns(st, fns) ==
    IF fns = <<>> \/ st.err # "ok" THEN st
    ELSE RunFns(RunFn(st, Head(fns)), Tail(fns))

\* apply(*fns)(pipeline)
apply(doc, fns) == RunFns(St(doc, Root, "ok"), fns)

\* --------------------------------------------------------- migrate.py
\* An ActionDescriptor is modelled by its space-separated tokens, the last
\* one with the trailing colon: "+ one list entry added:" is
\* <<"+", "one", "list", "entry", "added:">>.  AnyChar models the regular
\* expression's "." (one character), LowerWords its "[a-z]+".
AnyChar == {"+", "-", "±"}
LowerWords == {"one", "two", "value", "change"}

Unmatched == [matched |-> FALSE, type |-> "", operation |-> ""]

\* variant: the expression without its trailing colon
LIST_MAP_ACTIONS_NO_COLON(action) ==
    IF /\ Len(action) = 5
       /\ action[1] \in AnyChar
       /\ action[2] \in LowerWords
       /\ action[3] \in {"list", "map"}
       /\ action[4] \in {"entry", "entries"}
       /\ action[5] \in {"added:", "removed:", "added", "removed"}
    THEN [matched |-> TRUE, type |-> action[3],
          operation |-> IF action[5] \in {"added:", "added"} THEN "added" ELSE "removed"]
    ELSE Unmatched

\* LIST_MAP_ACTIONS_RE.match(action), with the groups type and operation
LIST_MAP_ACTIONS_RE(action) ==
    IF /\ Len(action) = 5
       /\ action[1] \in AnyChar
       /\ action[2] \in LowerWords
       /\ action[3] \in {"list", "map"}
       /\ action[4] \in {"entry", "entries"}
       /\ action[5] \in {"added:", "removed:"}
    THEN [matched |-> TRUE, type |-> action[3],
          operation |-> IF action[5] = "added:" THEN "added" ELSE "removed"]
    ELSE Unmatched

\* A Path is modelled by its segments: "spec.tasks.init.params" is
\* <<"spec", "tasks", "init", "params">> (path.split(".")).  WordSegs are the
\* segments that match [\w-]+.
WordSegs == {"spec", "tasks", "params", "workspaces", "init", "step-0"}

\* re.match(r"^spec\.tasks\.(?P<task_name>[\w-]+)\.params$", path)
path_pattern(parts) ==
    /\ Len(parts) = 4
    /\ parts[1] = "spec"
    /\ parts[2] = "tasks"
    /\ parts[3] \in WordSegs
    /\ parts[4] = "params"

\* A DetailBlock is modelled by what the two decoders return for it:
\* load_list_details(detail) is detail.items (the entries, in order),
\* load_map_details(detail) is detail.maps (the key/value pairs, in order).
Action(desc, items, maps) == [desc |-> desc, items |-> items, maps |-> maps]
load_list_details(action) == action.items
load_map_details(action) == action.maps

\* the mapping a sequence of key/value pairs denotes
ToMap(pairs) ==
    [k \in {pairs[i][1] : i \in DOMAIN pairs} |->
        (CHOOSE p \in Range(pairs) : p[1] = k)[2]]

\* variant: the loop testing the part itself, not the part before it
PathFnsOffByOne(parts) ==
    Concat([i \in 1..Len(parts) |->
        IF i > 1 /\ is_tk_list_fields(parts[i])
        THEN <<if_matches_task(parts[i]), nth(0)>>
        ELSE <<with_path(parts[i], "None")>>])

\* the loop over the parts of a path: generate_dsl, the first inner loop
PathFns(parts) ==
    Concat([i \in 1..Len(parts) |->
        IF i > 1 /\ is_tk_list_fields(parts[i - 1])
        THEN <<if_matches_task(parts[i]), nth(0)>>
        ELSE <<with_path(parts[i], "None")>>])

\* match_name_value(**detail_item) is a TypeError unless the item's keys are
\* exactly name and value
NameValueArgsOk(item) == DOMAIN item.f = {"name", "value"}

\* the operations of one action: generate_dsl, the body of the second loop
ActionFns(action) ==
    LET m == LIST_MAP_ACTIONS_RE(action.desc)
        items == load_list_details(action)
        maps == load_map_details(action)
    IN  IF ~m.matched THEN <<>>
        ELSE IF m.type = FIELD_TYPE_LIST THEN
            Concat([k \in 1..Len(items) |->
                IF m.operation = OP_ADDED THEN <<append(items[k])>>
                ELSE IF m.operation = OP_REMOVED /\ NameValueArgsOk(items[k])
                THEN <<delete_if_name_value(items[k].f["name"], items[k].f["value"])>>
                ELSE <<>>])
        ELSE IF m.type = FIELD_TYPE_MAP THEN
            IF m.operation = OP_ADDED THEN <<append(Entry(ToMap(maps), 0))>>
            ELSE IF m.operation = OP_REMOVED
            THEN [k \in 1..Len(maps) |-> delete_key(maps[k][1])]
            ELSE <<>>
        ELSE <<>>

\* whether compiling the action raises (the TypeError of match_name_value)
ActionRaises(action) ==
    LET m == LIST_MAP_ACTIONS_RE(action.desc)
    IN  /\ m.matched
        /\ m.type = FIELD_TYPE_LIST
        /\ m.operation = OP_REMOVED
        /\ \E k \in DOMAIN action.items : ~NameValueArgsOk(action.items[k])

\* the callable of one path: apply(*fns)
ChangeFns(change) ==
    PathFns(change.path) \o
    Concat([k \in 1..Len(change.actions) |-> ActionFns(change.actions[k])])

\* generate_dsl(differences): the callables, one for each path it handles, or
\* the exception it raises
generate_dsl(diff) ==
    LET handled == {j \in DOMAIN diff : path_pattern(diff[j].path)}
        order == SelectIdx(Len(diff), 1, handled)
        raises == \E j \in handled :
                     \E k \in DOMAIN diff[j].actions : ActionRaises(diff[j].actions[k])
    IN  IF raises THEN [applies |-> <<>>, err |-> "TypeError"]
        ELSE [applies |-> [k \in 1..Len(order) |-> ChangeFns(diff[order[k]])],
              err |-> "ok"]

\* ------------------------------------------------------------- inputs
\* entries (name/value mappings) of details and of params lists
A1 == [name |-> "a", value |-> "v1"]
A2 == [name |-> "a", value |-> "v2"]
B1 == [name |-> "b", value |-> "v1"]
A0 == [name |-> "a"]

DescListAdded == <<"+", "one", "list", "entry", "added:">>
DescListsAdded == <<"+", "two", "list", "entries", "added:">>
DescListRemoved == <<"-", "one", "list", "entry", "removed:">>
DescMapAdded == <<"+", "one", "map", "entry", "added:">>
DescMapRemoved == <<"-", "one", "map", "entry", "removed:">>
DescMapsRemoved == <<"-", "two", "map", "entries", "removed:">>
DescValueChange == <<"±", "value", "change">>
DescNoColon == <<"+", "one", "list", "entry", "added">>

PathInit == <<"spec", "tasks", "init", "params">>
PathStep0 == <<"spec", "tasks", "step-0", "params">>
PathParams == <<"spec", "tasks", "params", "params">>
PathTasks == <<"spec", "tasks">>
PathTaskStep0 == <<"spec", "tasks", "step-0">>

Src(f) == Entry(f, 0)
DistinctDescs(as) == \A i, j \in DOMAIN as : as[i].desc = as[j].desc => i = j
RECURSIVE NActions(_)
NActions(r) == IF r = <<>> THEN 0 ELSE Len(Head(r).actions) + NActions(Tail(r))

Change(path, actions) == [path |-> path, actions |-> actions]

\* the end-to-end case of test_migrate_with_dsl: the diff of from_pipeline and
\* to_pipeline, and the pipeline run whose embedded copy has only step-0
E2EParams ==
    <<Entry([name |-> "image-url", value |-> "$(params.output-image)"], 0),
      Entry([name |-> "rebuild", value |-> "$(params.rebuild)"], 0),
      Entry([name |-> "skip-checks", value |-> "$(params.skip-checks)"], 0)>>
E2EInit == [name |-> "init", params |-> E2EParams]
E2EDiff ==
    <<Change(PathTaskStep0,
             <<Action(DescMapAdded, <<>>, <<<<"script", "echo hello adventure">>>>)>>),
      Change(PathTasks, <<Action(DescListAdded, <<Src(E2EInit)>>, <<>>)>>)>>
E2EDoc == Doc("list", <<Task("step-0", PAbsent)>>, 1)

\* the DiffReports and the documents of the migration runs
MainActions ==
    {Action(DescListAdded, <<Src(A1)>>, <<>>),
     Action(DescValueChange, <<>>, <<>>),
     Action(DescNoColon, <<Src(A1)>>, <<>>)}
MainPaths == {PathInit, PathStep0, PathParams, PathTasks}

\* dyff reports a path with at least one action, and no action twice
ChangeSets(pool, n) == {x \in SeqsUpTo(pool, n) : x # <<>> /\ DistinctDescs(x)}

RECURSIVE ReportsUpTo(_, _)
\* the reports of at most n paths (distinct) and at most MaxActions actions
ReportsUpTo(changes, n) ==
    IF n = 0 THEN {<<>>}
    ELSE LET shorter == ReportsUpTo(changes, n - 1)
             More(t) == {c \in changes :
                            /\ \A k \in DOMAIN t : t[k].path # c.path
                            /\ NActions(t) + Len(c.actions) <= MaxActions}
         IN  shorter \cup
             UNION {{Append(t, c) : c \in More(t)} : t \in {u \in shorter : Len(u) = n - 1}}

MainChanges == {Change(p, as) : p \in MainPaths, as \in ChangeSets(MainActions, MaxActions)}
MainReports == ReportsUpTo(MainChanges, MaxPaths) \cup {E2EDiff}

\* the tasks of a pipeline have distinct names
DistinctNames(ts) == \A j, k \in DOMAIN ts : ts[j].name = ts[k].name => j = k
MainParams == {PAbsent, PNull, PList(<<>>)}
MainNames == {"init", "step-0"}
MainTasks == {Task(n, p) : n \in MainNames, p \in MainParams}
MainDocs ==
    {Doc("absent", <<>>, 1)} \cup
    {Doc("list", ts, 1) : ts \in {x \in SeqsUpTo(MainTasks, Cardinality(MainNames)) :
                                      DistinctNames(x)}}

\* the runs of one callable: a report of one path, and a document whose task
\* init has a params list, a params mapping or a null params
WithOids(fs) == [k \in DOMAIN fs |-> Entry(fs[k], k)]
FnLists == {WithOids(fs) : fs \in SeqsUpTo({A1, A2, B1, A0}, MaxLen)}
FnMaps == {[k \in ks |-> "x"] : ks \in SUBSET {"k1", "k2"}}
FnParams == {PList(l) : l \in FnLists} \cup {PMap(m) : m \in FnMaps} \cup {PNull}
FnDocs ==
    {Doc("list", <<Task("step-0", PList(<<>>)), Task("init", p)>>,
         Len(p.items) + 1) : p \in FnParams}
FnActions ==
    {Action(DescListAdded, <<Src(A1)>>, <<>>),
     Action(DescListAdded, <<Src(B1)>>, <<>>),
     Action(DescListsAdded, <<Src(A1), Src(B1)>>, <<>>),
     Action(DescListRemoved, <<Src(A1)>>, <<>>),
     Action(DescListRemoved, <<Src(B1)>>, <<>>),
     Action(DescListRemoved, <<Src(A0)>>, <<>>),
     Action(DescMapAdded, <<>>, <<<<"k1", "x">>>>),
     Action(DescMapRemoved, <<>>, <<<<"k1", "x">>>>),
     Action(DescMapsRemoved, <<>>, <<<<"k2", "x">>, <<"k1", "x">>>>),
     Action(DescValueChange, <<>>, <<>>)}
FnReports == {<<Change(PathInit, as)>> : as \in ChangeSets(FnActions, MaxActions)}

\* -------------------------------------------------------------- state
VARIABLES
    pc,           \* where main() is
    differences,  \* the DiffReport: a sequence of [path, actions]
    file,         \* the pipeline file as it is on disk
    applies,      \* generate_dsl's result: the callables
    origin,       \* migrate_with_dsl's loaded document
    i,            \* migrate_with_dsl's loop: the next migration
    err,          \* the exception that ended the run, or "ok"
    modified,     \* the written file pipeline_file + ".modified", or NotWritten
    loads,        \* how often the pipeline file was loaded
    applied,      \* the migrations called so far, in order (their indices)
    text,         \* convert_difference: the lines of the diff text
    yaml_lines,   \* convert_difference: the lines emitted so far
    result        \* convert_difference: what yaml.load returned

vars == <<pc, differences, file, applies, origin, i, err, modified, loads, applied,
          text, yaml_lines, result>>

NotWritten == Doc("unwritten", <<>>, 0)
NoDoc == Doc("unloaded", <<>>, 0)
decoderVars == <<text, yaml_lines, result>>
DecoderIdle == text = <<>> /\ yaml_lines = <<>> /\ result = [status |-> "none", shape |-> "none", report |-> <<>>]

\* main(): --generate dsl --modify-pipeline FILE, after the differences are computed
Init ==
    /\ pc = "main"
    /\ differences \in MainReports
    /\ file \in MainDocs
    /\ applies = <<>>
    /\ origin = NoDoc
    /\ i = 0
    /\ err = "ok"
    /\ modified = NotWritten
    /\ loads = 0
    /\ applied = <<>>
    /\ DecoderIdle

\* r = generate_dsl(diff)
GenerateDsl ==
    /\ pc = "main"
    /\ LET r == generate_dsl(differences)
       IN  /\ applies' = r.applies
           /\ err' = r.err
           /\ pc' = IF r.err = "ok" THEN "generated" ELSE "raised"
    /\ UNCHANGED <<differences, file, origin, i, modified, loads, applied, decoderVars>>

\* migrate_with_dsl: origin_pipeline = yaml.load(f)
LoadPipeline ==
    /\ pc = "generated"
    /\ origin' = file
    /\ loads' = loads + 1
    /\ i' = 1
    /\ pc' = "migrating"
    /\ UNCHANGED <<differences, file, applies, err, modified, applied, decoderVars>>

\* variant: a loop that restores the loaded document when a migration raises
ApplyMigrationRollback ==
    /\ pc = "migrating"
    /\ i <= Len(applies)
    /\ LET r == apply(origin, applies[i])
       IN  /\ origin' = IF r.err = "ok" THEN r.doc ELSE file
           /\ err' = r.err
           /\ pc' = IF r.err = "ok" THEN "migrating" ELSE "raised"
           /\ i' = IF r.err = "ok" THEN i + 1 ELSE i
    /\ applied' = Append(applied, i)
    /\ UNCHANGED <<differences, file, applies, modified, loads, text, yaml_lines, result>>

\* migrate_with_dsl: one iteration of the loop, migration(pipeline)
ApplyMigration ==
    /\ pc = "migrating"
    /\ i <= Len(applies)
    /\ LET r == apply(origin, applies[i])
       IN  /\ origin' = r.doc
           /\ err' = r.err
           /\ pc' = IF r.err = "ok" THEN "migrating" ELSE "raised"
           /\ i' = IF r.err = "ok" THEN i + 1 ELSE i
    /\ applied' = Append(applied, i)
    /\ UNCHANGED <<differences, file, applies, modified, loads, decoderVars>>

\* migrate_with_dsl: yaml.dump(origin_pipeline, f) after the loop
DumpPipeline ==
    /\ pc = "migrating"
    /\ i > Len(applies)
    /\ modified' = origin
    /\ pc' = "done"
    /\ UNCHANGED <<differences, file, applies, origin, i, err, loads, applied, decoderVars>>

Next == GenerateDsl \/ LoadPipeline \/ ApplyMigration \/ DumpPipeline

Spec == Init /\ [][Next]_vars

\* ------------------------------------------------- runs of one callable
\* apply(*fns) returns a callable; nothing keeps its caller from calling it
\* again on the same document.
InitFn ==
    /\ pc = "fn"
    /\ differences \in FnReports
    /\ file \in FnDocs
    /\ applies = <<>>
    /\ origin = file
    /\ i = 1
    /\ err = "ok"
    /\ modified = NotWritten
    /\ loads = 0
    /\ applied = <<>>
    /\ DecoderIdle

\* generate_dsl(differences)
FnGenerate ==
    /\ pc = "fn"
    /\ LET r == generate_dsl(differences)
       IN  /\ applies' = r.applies
           /\ err' = r.err
           /\ pc' = IF r.err = "ok" THEN "callable" ELSE "raised"
    /\ UNCHANGED <<differences, file, origin, i, modified, loads, applied, decoderVars>>

\* one call of the callable on the document
FnCall ==
    /\ pc = "callable"
    /\ Len(applied) < MaxRuns
    /\ LET r == apply(origin, applies[1])
       IN  /\ origin' = r.doc
           /\ err' = r.err
           /\ pc' = IF r.err = "ok" THEN "callable" ELSE "raised"
    /\ applied' = Append(applied, 1)
    /\ UNCHANGED <<differences, file, applies, i, modified, loads, decoderVars>>

NextFn == FnGenerate \/ FnCall

SpecFn == InitFn /\ [][NextFn]_vars

\* --------------------------------------------------- convert_difference
\* A line of the diff text is the sequence of its characters (without the
\* line break).
RECURSIVE Spaces(_)
Spaces(n) == IF n = 0 THEN <<>> ELSE <<" ">> \o Spaces(n - 1)

RECURSIVE rstrip(_)
rstrip(line) ==
    IF line # <<>> /\ line[Len(line)] = " " THEN rstrip(SubSeq(line, 1, Len(line) - 1))
    ELSE line

RECURSIVE count_leading_spaces(_)
count_leading_spaces(str) ==
    IF str # <<>> /\ Head(str) = " " THEN 1 + count_leading_spaces(Tail(str)) ELSE 0

From(str, n) == SubSeq(str, n + 1, Len(str))

\* The lines convert_difference emits: "top" is  "<s>":  , "act" is
\*   "<s>": |  (a key at column 2 with a literal block scalar), "raw" is s as is.
YamlLine(k, str) == [k |-> k, s |-> str]

\* the body of the loop of convert_difference for one line
Emit(line) ==
    LET str == rstrip(line)
        spaces_n == count_leading_spaces(str)
    IN  IF str = <<>> THEN <<>>
        ELSE IF spaces_n = 0 THEN <<YamlLine("top", str)>>
        ELSE IF spaces_n = 2 THEN <<YamlLine("act", From(str, 2))>>
        ELSE <<YamlLine("raw", Spaces(spaces_n) \o From(str, spaces_n))>>

\* yaml.load of the emitted lines (YAML(typ="safe")), for lines whose text is
\* a plain word: a block mapping at column 0 ("top" keys) of block mappings at
\* column 2 ("act" keys) of literal block scalars.  A literal block scalar
\* takes its indentation from its first line, which must be deeper than its
\* key; a less indented line ends it, and must then be a key of an open
\* mapping, at that mapping's column.  A key that repeats in its mapping is a
\* DuplicateKeyError.  ctx is where the parser is: "start", "key" (after a top
\* key), "plain" (in a plain scalar, the value of a top key), "header" (after
\* an act key, before its scalar's first line), "block" (in a literal block
\* scalar of indentation b), "rootplain" (in a plain scalar that is the whole
\* document), "error".
NoResult == [status |-> "none", shape |-> "none", report |-> <<>>]
YStart == [ctx |-> "start", shape |-> "none", b |-> 0, report |-> <<>>]
YError(y) == [y EXCEPT !.ctx = "error"]
PathEntry(str, val, actions) == [path |-> str, val |-> val, actions |-> actions]
ActEntry(str) == [desc |-> str, block |-> <<>>]

YTop(y, str) ==
    IF y.shape = "flat" \/ \E j \in DOMAIN y.report : y.report[j].path = str
    THEN YError(y)
    ELSE [y EXCEPT !.ctx = "key", !.shape = "report",
                   !.report = Append(@, PathEntry(str, "null", <<>>))]

YAct(y, str) ==
    LET n == Len(y.report)
    IN  IF y.ctx = "start"
        THEN [y EXCEPT !.ctx = "header", !.shape = "flat",
                       !.report = <<PathEntry(<<>>, "changes", <<ActEntry(str)>>)>>]
        ELSE IF \E j \in DOMAIN y.report[n].actions : y.report[n].actions[j].desc = str
        THEN YError(y)
        ELSE [y EXCEPT !.ctx = "header", !.report[n].val = "changes",
                       !.report[n].actions = Append(@, ActEntry(str))]

YRaw(y, str) ==
    LET n == Len(y.report)
        col == count_leading_spaces(str)
        b == IF y.ctx = "header" THEN col ELSE y.b
        last == Len(y.report[n].actions)
    IN  CASE y.ctx = "start" -> [y EXCEPT !.ctx = "rootplain", !.shape = "scalar"]
          [] y.ctx = "rootplain" -> y
          [] y.ctx = "key" -> [y EXCEPT !.ctx = "plain", !.report[n].val = "scalar"]
          [] y.ctx = "plain" -> y
          [] y.ctx \in {"header", "block"} ->
               IF col >= 3 /\ col >= b
               THEN [y EXCEPT !.ctx = "block", !.b = b,
                              !.report[n].actions[last].block = Append(@, From(str, b))]
               ELSE YError(y)

YStep(y, l) ==
    CASE y.ctx = "error" -> y
      [] l.k = "top" -> IF y.ctx = "rootplain" THEN YError(y) ELSE YTop(y, l.s)
      [] l.k = "act" -> IF y.ctx \in {"rootplain", "plain"} THEN YError(y) ELSE YAct(y, l.s)
      [] l.k = "raw" -> YRaw(y, l.s)

RECURSIVE YParse(_, _)
YParse(y, lines) == IF lines = <<>> THEN y ELSE YParse(YStep(y, Head(lines)), Tail(lines))

yaml_load(lines) ==
    LET y == YParse(YStart, lines)
    IN  IF y.ctx = "error" THEN [status |-> "error", shape |-> "none", report |-> <<>>]
        ELSE [status |-> "ok", shape |-> y.shape, report |-> y.report]

Indents == {0, 1, 2, 4, 6}
Words == {"p", "q"}
TextLines == {Spaces(n) \o <<w>> : n \in Indents, w \in Words} \cup {<<>>, <<" ", " ">>}

\* convert_difference(proc.stdout): dyff's output starts with a path
InitConvert ==
    /\ pc = "convert"
    /\ text \in {t \in SeqsUpTo(TextLines, MaxLines) :
                    t # <<>> => count_leading_spaces(t[1]) = 0 /\ t[1] # <<>>}
    /\ yaml_lines = <<>>
    /\ result = NoResult
    /\ i = 1
    /\ differences = <<>>
    /\ file = NoDoc
    /\ applies = <<>>
    /\ origin = NoDoc
    /\ err = "ok"
    /\ modified = NotWritten
    /\ loads = 0
    /\ applied = <<>>

mainVars == <<differences, file, applies, origin, err, modified, loads, applied>>

\* one line read: the body of the while loop
ReadLine ==
    /\ pc = "convert"
    /\ i <= Len(text)
    /\ yaml_lines' = yaml_lines \o Emit(text[i])
    /\ i' = i + 1
    /\ UNCHANGED <<pc, text, result, mainVars>>

\* the end of the text: yaml.load(yaml_content)
LoadYaml ==
    /\ pc = "convert"
    /\ i > Len(text)
    /\ result' = yaml_load(yaml_lines)
    /\ pc' = IF result'.status = "ok" THEN "converted" ELSE "raised"
    /\ UNCHANGED <<text, yaml_lines, i, mainVars>>

NextConvert == ReadLine \/ LoadYaml

SpecConvert == InitConvert /\ [][NextConvert]_vars

\* ============================================================ properties
\* the changes of the report that generate_dsl compiled, in report order
Handled == SelectSeq(differences, LAMBDA c : path_pattern(c.path))
Generated == pc \in {"generated", "migrating", "done"} \/ (pc = "raised" /\ loads > 0)
Fields(items) == [k \in DOMAIN items |-> items[k].f]

\* ---- C1 ----
\* C1 (as claimed): in the end-to-end case of test_migrate_with_dsl (old
\* definition: task step-0 only; new definition: task init with three params
\* added), the written document's embedded copy holds step-0 unchanged and a
\* task init with exactly the three params, in the order the diff lists them.
C1_EndToEnd ==
    (pc = "done" /\ differences = E2EDiff /\ file = E2EDoc) =>
        /\ modified.tasksKind = "list"
        /\ Len(modified.tasks) = 2
        /\ modified.tasks[1] = Task("step-0", PAbsent)
        /\ modified.tasks[2].name = "init"
        /\ modified.tasks[2].params.kind = "list"
        /\ Fields(modified.tasks[2].params.items) = Fields(E2EParams)

\* ---- C2 ----
\* the PatchOperation a combinator is, in the vocabulary of the data model
Navigate(field) == [op |-> "Navigate", arg |-> field]
Filter(name) == [op |-> "Filter", arg |-> name]
SelectFirst == [op |-> "SelectFirst", arg |-> ""]
Mutation == [op |-> "Mutation", arg |-> ""]
OpOf(f) ==
    CASE f.fn = "with_path" -> Navigate(f.key)
      [] f.fn = "if_matches" -> Filter(f.key)
      [] f.fn = "nth" /\ f.idx = 0 -> SelectFirst
      [] OTHER -> Mutation
OpsOf(fns) == [k \in DOMAIN fns |-> OpOf(fns[k])]
NavigationOf(fns) == SelectSeq(OpsOf(fns), LAMBDA o : o # Mutation)
IsPrefix(a, b) == Len(a) <= Len(b) /\ SubSeq(b, 1, Len(a)) = a

\* what the claim says the compiler emits for segment k of a path
Emitted(parts, k) ==
    IF k > 1 /\ parts[k - 1] \in {"params", "tasks", "workspaces"}
    THEN <<Filter(parts[k]), SelectFirst>>
    ELSE <<Navigate(parts[k])>>
RECURSIVE EmittedUpTo(_, _)
EmittedUpTo(parts, k) ==
    IF k = 0 THEN <<>> ELSE EmittedUpTo(parts, k - 1) \o Emitted(parts, k)

\* C2: every callable generate_dsl returns starts with the steps of its path,
\* segment by segment: Filter(name == segment), SelectFirst() for a segment
\* that follows params, tasks or workspaces, Navigate(segment) for any other;
\* spec.tasks.init.params gives Navigate(spec), Navigate(tasks),
\* Filter(name == init), SelectFirst(), Navigate(params).
C2_PathCompilation ==
    Generated =>
        /\ Len(applies) = Len(Handled)
        /\ \A k \in DOMAIN applies :
              LET parts == Handled[k].path
                  steps == EmittedUpTo(parts, Len(parts))
              IN  /\ IsPrefix(steps, OpsOf(applies[k]))
                  /\ NavigationOf(applies[k]) = steps
                  /\ parts = PathInit =>
                        NavigationOf(applies[k]) =
                            <<Navigate("spec"), Navigate("tasks"), Filter("init"),
                              SelectFirst, Navigate("params")>>

\* a run that compiled spec.tasks.init.params and spec.tasks.params.params
C2_Witness ==
    /\ pc = "generated"
    /\ Len(applies) = 2
    /\ Handled[1].path = PathInit
    /\ Handled[2].path = PathParams
    /\ Len(Handled[1].actions) > 0

\* ---- C4 ----
RECURSIVE ApplyAll(_, _, _)
\* the document after the first n callables ran on it, one after the other
ApplyAll(doc, fnss, n) ==
    IF n = 0 THEN doc ELSE apply(ApplyAll(doc, fnss, n - 1), fnss[n]).doc

ClaimedShape(desc) ==
    /\ Len(desc) = 5
    /\ desc[1] \in {"+", "-", "±"}
    /\ desc[2] \in {"one", "two"}
    /\ desc[3] \in {"list", "map"}
    /\ desc[4] \in {"entry", "entries"}
    /\ desc[5] \in {"added:", "removed:"}
Supported(change) ==
    Change(change.path, SelectSeq(change.actions, LAMBDA a : ClaimedShape(a.desc)))
SupportedOnly(diff) == [j \in DOMAIN diff |-> Supported(diff[j])]
MutationsOf(fns) == SelectSeq(fns, LAMBDA f : OpOf(f) = Mutation)
NItems(a) == IF a.desc[3] = "list" THEN Len(a.items) ELSE Len(a.maps)
RECURSIVE NOps(_)
NOps(as) ==
    IF as = <<>> THEN 0
    ELSE (IF Head(as).desc[3] = "map" /\ Head(as).desc[5] = "added:" THEN 1
          ELSE NItems(Head(as))) + NOps(Tail(as))

\* C8: generate_dsl raises nothing over a descriptor that is not of the
\* supported shape and compiles nothing for it: its callables are those of
\* the report without the unsupported actions, and each holds one operation
\* for every entry (or key, or added mapping) of its path's supported actions.
C8_UnsupportedSkipped ==
    (pc # "main") =>
        /\ Generated
        /\ applies = generate_dsl(SupportedOnly(differences)).applies
        /\ \A k \in DOMAIN applies :
              Len(MutationsOf(applies[k])) = NOps(Supported(Handled[k]).actions)

\* a path with an unsupported action before a supported one, and another
\* path with a supported action
C8_Witness ==
    /\ pc = "generated"
    /\ Len(applies) = 2
    /\ Len(Handled[1].actions) = 2
    /\ ~ClaimedShape(Handled[1].actions[1].desc)
    /\ ClaimedShape(Handled[1].actions[2].desc)
    /\ Len(MutationsOf(applies[1])) = 1
    /\ Len(MutationsOf(applies[2])) = 1

\* ---- C9 ----
\* the task a compiled path selects, or 0
SelectedTask(doc, name) ==
    IF \E t \in DOMAIN doc.tasks : doc.tasks[t].name = name
    THEN CHOOSE t \in DOMAIN doc.tasks :
            /\ doc.tasks[t].name = name
            /\ \A u \in DOMAIN doc.tasks : doc.tasks[u].name = name => t <= u
    ELSE 0
\* the path of a callable navigates to a field its sub-document does not have
NavigatesAbsent(doc, parts) ==
    \/ doc.tasksKind = "absent"
    \/ /\ parts[4] = "params"
       /\ ~is_tk_list_fields(parts[3])
       /\ SelectedTask(doc, parts[3]) # 0
       /\ doc.tasks[SelectedTask(doc, parts[3])].params.kind = "absent"
FieldPresent(doc, parts) ==
    /\ doc.tasksKind # "absent"
    /\ SelectedTask(doc, parts[3]) # 0 =>
           doc.tasks[SelectedTask(doc, parts[3])].params.kind # "absent"

\* C9 (as claimed): a callable of generate_dsl that navigates to an absent
\* field does not fail on it, and the field holds a container afterwards.
C9_DefaultInsert ==
    [][(pc = "migrating" /\ i <= Len(applies) /\ NavigatesAbsent(origin, Handled[i].path))
          => (err' # "KeyError" /\ FieldPresent(origin', Handled[i].path))]_vars

\* ---- C10 ----
\* C10 (as claimed): generate_dsl returns exactly one program for each Path of
\* the report, in the report's order; migrate_with_dsl applies each of them
\* exactly once, in that order, to a document it loads once, and then writes
\* the document.
C10_OnePerPath ==
    /\ (pc # "main") =>
          /\ Len(applies) = Len(differences)
          /\ \A k \in DOMAIN applies :
                IsPrefix(EmittedUpTo(differences[k].path, Len(differences[k].path)),
                         OpsOf(applies[k]))
    /\ (pc \in {"done", "raised"}) =>
          /\ applied = [k \in 1..Len(applies) |-> k]
          /\ loads = 1
          /\ modified = origin

\* ---- C3, C5, C6: runs of one callable ----
\* the container: the params of the task init of the harness documents
Container(doc) == doc.tasks[2].params
TheActions == differences[1].actions
\* the changeset is: list-add of entry e, then list-remove of entry e
AddThenRemove(e) ==
    /\ Len(TheActions) = 2
    /\ TheActions[1].desc = DescListAdded /\ TheActions[1].items = <<Src(e)>>
    /\ TheActions[2].desc = DescListRemoved /\ TheActions[2].items = <<Src(e)>>

RoundTripSafe(items, e) ==
    \A k \in DOMAIN items :
        /\ DOMAIN items[k].f = {"name", "value"}
        /\ ~(items[k].f["name"] = e["name"] /\ items[k].f["value"] = e["value"])

OnlyAdds ==
    /\ TheActions # <<>>
    /\ \A k \in DOMAIN TheActions :
          TheActions[k].desc \in {DescListAdded, DescListsAdded}
Added == Concat([k \in DOMAIN TheActions |-> Fields(TheActions[k].items)])
RECURSIVE Times(_, _)
Times(seq, n) == IF n = 0 THEN <<>> ELSE Times(seq, n - 1) \o seq
SourceOids == {0}

\* C5: every call of a callable that appends adds its entries once more (the
\* second call duplicates them), and every entry it adds is an object of its
\* own: not the decoded source entry, and not an entry added before.
C5_ReapplyDuplicates ==
    (OnlyAdds /\ Container(file).kind = "list" /\ pc # "fn") =>
        LET items == Container(origin).items
        IN  /\ err = "ok"
            /\ Fields(items) = Fields(Container(file).items) \o Times(Added, Len(applied))
            /\ \A j, k \in DOMAIN items : items[j].oid = items[k].oid => j = k
            /\ \A k \in DOMAIN items : items[k].oid \notin SourceOids

\* the callable ran twice and the container holds its entry twice
C5_Witness ==
    /\ OnlyAdds
    /\ Len(applied) = 2
    /\ Len(Container(origin).items) = Len(Container(file).items) + 2 * Len(Added)
    /\ Len(Container(file).items) > 0

\* the changeset is map-removes only, of the keys in MapRemoved
OnlyMapRemoves ==
    /\ TheActions # <<>>
    /\ \A k \in DOMAIN TheActions :
          TheActions[k].desc \in {DescMapRemoved, DescMapsRemoved}
RemovedKeys ==
    UNION {{TheActions[k].maps[j][1] : j \in DOMAIN TheActions[k].maps} :
              k \in DOMAIN TheActions}

\* C6: map-remove raises nothing, removes the keys that are present and
\* changes nothing else: with no removed key present, the document is as it was.
C6_AbsentKeyNoOp ==
    (OnlyMapRemoves /\ Container(file).kind = "map" /\ Len(applied) >= 1) =>
        LET m == Container(file).map
        IN  /\ err = "ok"
            /\ origin = [file EXCEPT !.tasks[2].params.map =
                                         [k \in DOMAIN m \ RemovedKeys |-> m[k]]]
            /\ (RemovedKeys \cap DOMAIN m = {}) => origin = file

\* a key was removed from a mapping that does not have it
C6_Witness ==
    /\ OnlyMapRemoves
    /\ Container(file) = PMap([k2 |-> "x"])
    /\ RemovedKeys = {"k1"}
    /\ Len(applied) = 1
    /\ origin = file

\* ---- C7 ----
Unindented(str) == From(str, count_leading_spaces(str))
NonBlank(lines) == SelectSeq(lines, LAMBDA l : rstrip(l) # <<>>)
\* the decoding the claim describes: indentation 0 opens a Path, indentation 2
\* opens an action of the current Path, any other line joins the DetailBlock
\* of the current action
ClaimedStep(rep, line) ==
    LET n == Len(rep)
        col == count_leading_spaces(line)
    IN  IF col = 0 THEN Append(rep, PathEntry(line, "null", <<>>))
        ELSE IF col = 2
        THEN [rep EXCEPT ![n].val = "changes",
                         ![n].actions = Append(@, ActEntry(Unindented(line)))]
        ELSE [rep EXCEPT ![n].actions[Len(rep[n].actions)].block =
                             Append(@, Unindented(line))]
RECURSIVE ClaimedFold(_, _)
ClaimedFold(rep, lines) ==
    IF lines = <<>> THEN rep ELSE ClaimedFold(ClaimedStep(rep, Head(lines)), Tail(lines))
ClaimedDecode(lines) == ClaimedFold(<<>>, NonBlank(lines))
WithoutIndentation(rep) ==
    [j \in DOMAIN rep |->
        [rep[j] EXCEPT !.actions =
            [k \in DOMAIN rep[j].actions |->
                [rep[j].actions[k] EXCEPT !.block =
                    [m \in DOMAIN rep[j].actions[k].block |->
                        Unindented(rep[j].actions[k].block[m])]]]]]
\* the text has no header twice, no action twice in a Path, and all its
\* lines of another indentation come after an action of the current Path
Keyed(lines) ==
    LET nb == NonBlank(lines)
        col(k) == count_leading_spaces(nb[k])
    IN  /\ \A j, k \in DOMAIN nb : (col(j) = 0 /\ col(k) = 0 /\ nb[j] = nb[k]) => j = k
        /\ \A j, k \in DOMAIN nb :
              (j < k /\ col(j) = 2 /\ col(k) = 2 /\ nb[j] = nb[k]) =>
                  \E m \in j..k : col(m) = 0
        /\ \A k \in DOMAIN nb :
              col(k) \notin {0, 2} => (k > 1 /\ col(k - 1) # 0)

\* C7 (as claimed, and only for texts that repeat no header and no action and
\* have an action open at each line of another indentation): decoding never
\* fails, and gives the Paths in order of appearance, each with its actions,
\* each action with the lines of other indentations that follow it.
C7_Decoding ==
    Keyed(text) =>
        /\ pc # "raised"
        /\ pc = "converted" =>
              WithoutIndentation(result.report) = ClaimedDecode(text)

====
